---- MODULE Spec2Model ----
(***************************************************************************)
(* Model of rag/utils/redis_conn.py (RedisDistributedLock, the stream      *)
(* queue of RedisDB, Payload) and of graphrag/general/index.py (Dealer,    *)
(* WithResolution, WithCommunity).                                         *)
(*                                                                         *)
(* SpecLock       : worker processes running the three pipelines and       *)
(*                  direct users of the lock API against one lock key.     *)
(* SpecCrash      : direct users of the lock API that may stop while       *)
(*                  holding the key, with fairness.                        *)
(* SpecDealer     : concurrent Dealer runs on batches of two documents.    *)
(* SpecSequential : the three pipelines run one after the other.           *)
(* SpecQueue      : producers and consumers on one stream of the store.    *)
(* SpecProduct    : queue_product, attempt by attempt.                     *)
(* SpecClient     : the error handling of the client's operations.         *)
(*                                                                         *)
(* Time is counted in ticks.  A timer is kept as the time that is left     *)
(* (end_time - time.time(), the key's remaining TTL), so that the state    *)
(* space stays finite.                                                     *)
(***************************************************************************)
EXTENDS Integers, Sequences, FiniteSets, TLC

(***************************************************************************)
(* Bounds of the model.                                                    *)
(***************************************************************************)
\* RedisDistributedLock(kb_id, 60*30): the TTL, scaled down to ticks.
TtlTicks == 4
\* timeout=10: the acquire timeout, scaled down to ticks (less than the TTL,
\* as 10 s is less than 30 min).
AcquireTimeoutTicks == 3
\* the 0.1 s floor of the sleep between two attempts, in ticks.  The floor
\* is not a divisor of the timeout: the time that is left when a sleep
\* begins can be less than the floor, as it can in seconds.
MinSleepTicks == 2
\* successful acquire_lock calls a direct user makes on one instance.
MaxAcquires == 1
\* entries of the stream
MaxMsgs == 2
\* the weight an edge of the persisted graph is let grow to
MaxWeight == 2
\* client objects self.REDIS is set to in turn (__open__ makes a new one)
MaxClients == 4

Workers == {"w1", "w2"}

\* the divisor of the adaptive backoff (end_time - time.time()) / 10
SleepDivisor == 10

(***************************************************************************)
(* Lock store: the one key kb_id of the store.                             *)
(***************************************************************************)
NoToken == <<"none", 0>>
NoKey == [present |-> FALSE, value |-> NoToken, ttl |-> 0]


Max(a, b) == IF a >= b THEN a ELSE b

\* SET key value NX EX ttl -> <<new key state, reply>>
SetNx(store, value, ttl) ==
    IF store.present
    THEN <<store, FALSE>>
    ELSE <<[present |-> TRUE, value |-> value, ttl |-> ttl], TRUE>>

\* a script that deletes the key whatever value it holds
DeleteAnyway(store, value) ==
    IF store.present THEN <<NoKey, 1>> ELSE <<store, 0>>

\* the lua script of release_lock: delete the key only if it holds value
CompareAndDelete(store, value) ==
    IF store.present /\ store.value = value
    THEN <<NoKey, 1>>
    ELSE <<store, 0>>

\* DEL key
Delete(store) == NoKey

(***************************************************************************)
(* Graph store (graphrag.utils get_graph / set_graph / graph_merge).       *)
(* A graph over the entities A and B: its node set and the weight of the   *)
(* edge (A, B), 0 when the edge is absent.                                 *)
(***************************************************************************)
Entities == {"A", "B"}
EmptyGraph == [nodes |-> {}, weight |-> 0]
NoGraph == [exists |-> FALSE, graph |-> EmptyGraph, doc_ids |-> {}]

\* what the extractor returns for a batch of chunks: (docid of each chunk,
\* entity names, weight of the relation (A, B) or 0 for no relation)
Batches ==
    { [docs |-> {"d1"}, ents |-> {"A"}, rel |-> 0] }

\* batches of two different documents, without a relation
DocBatches ==
    { [docs |-> {"d1"}, ents |-> {"A"}, rel |-> 0],
      [docs |-> {"d2"}, ents |-> {"B"}, rel |-> 0] }

\* batches with the relation (A, B, 1), one without a relation and one
\* in which the extractor found nothing
WeightedBatches ==
    { [docs |-> {"d1"}, ents |-> {"A", "B"}, rel |-> 1],
      [docs |-> {"d2"}, ents |-> {"A", "B"}, rel |-> 1],
      [docs |-> {"d1"}, ents |-> {"A"}, rel |-> 0],
      [docs |-> {"d2"}, ents |-> {}, rel |-> 0] }

\* nx.Graph(); add_node per entity; add_edge per relation (add_edge adds
\* its endpoints)
FreshGraph(b) ==
    [nodes  |-> b.ents \cup (IF b.rel > 0 THEN Entities ELSE {}),
     weight |-> b.rel]

\* graph_merge: union of nodes, overlapping edge weights are summed
graph_merge(g1, g2) ==
    [nodes |-> g1.nodes \cup g2.nodes, weight |-> g1.weight + g2.weight]

\* `not graph`: a networkx graph is falsy when it has no node
Falsy(stored) == ~stored.exists \/ stored.graph.nodes = {}

Pipelines == {"Dealer", "WithResolution", "WithCommunity"}
\* inside the body of the with statement, between get_graph and set_graph
BodyPcs == {"get_graph", "transform", "set_graph"}

\* no extraction result; for WithResolution, ents holds reso.removed_entities
NoBatch == [docs |-> {}, ents |-> {}, rel |-> 0]

\* a worker process that runs nothing
IdleWorker ==
    [pc             |-> "idle",
     kind           |-> "none",    \* the pipeline it runs, or "direct"
     lock_value     |-> NoToken,   \* self.lock_value of its lock instance
     _lock_acquired |-> FALSE,     \* self._lock_acquired of its lock instance
     time_left      |-> 0,         \* end_time - time.time() in acquire_lock
     sleep_left     |-> 0,         \* what is left of time.sleep
     elapsed        |-> 0,         \* ticks since acquire_lock returned
     exit_by        |-> "none",    \* how the body was left: end, return, raise
     batch          |-> NoBatch,   \* the collaborator's output
     local          |-> NoGraph,   \* self.graph and doc_ids
     acqs           |-> 0,         \* successful SET NX of the instance
     evals          |-> 0]         \* compare-and-delete calls of the instance


(***************************************************************************)
(* Messages.  A Python value and a JSON text are both written as a record  *)
(* [t, s, n, items]: t the type, s the text of a str, n the number of an   *)
(* int, items the elements of a list, tuple or array, or the keys and      *)
(* values of a dict or object in turn (key, value, key, value, ...).       *)
(***************************************************************************)
Value(t, s, n, items) == [t |-> t, s |-> s, n |-> n, items |-> items]
PyNone == Value("None", "", 0, <<>>)
PyInt(n) == Value("int", "", n, <<>>)
PyStr(s) == Value("str", s, 0, <<>>)
PyList(items) == Value("list", "", 0, items)
PyTuple(items) == Value("tuple", "", 0, items)
PyDict(items) == Value("dict", "", 0, items)
JNull == Value("null", "", 0, <<>>)
JNumber(n) == Value("number", "", n, <<>>)
JString(s) == Value("string", s, 0, <<>>)
JArray(items) == Value("array", "", 0, items)
JObject(items) == Value("object", "", 0, items)

\* the text json.dumps writes for a dict key: a str as it is, an int as
\* its decimal digits
KeyText(k) == IF k.t = "str" THEN k.s ELSE ToString(k.n)

\* json.dumps(message): lists and tuples both become arrays, every dict key
\* becomes a string
RECURSIVE json_dumps(_)
json_dumps(v) ==
    CASE v.t = "int" -> JNumber(v.n)
      [] v.t = "str" -> JString(v.s)
      [] v.t \in {"list", "tuple"} ->
             JArray([i \in 1..Len(v.items) |-> json_dumps(v.items[i])])
      [] v.t = "dict" ->
             JObject([i \in 1..Len(v.items) |->
                        IF i % 2 = 1 THEN JString(KeyText(v.items[i]))
                        ELSE json_dumps(v.items[i])])
      [] OTHER -> JNull

\* json.loads(text): arrays become lists, objects become dicts with str keys
RECURSIVE json_loads(_)
json_loads(j) ==
    CASE j.t = "number" -> PyInt(j.n)
      [] j.t = "string" -> PyStr(j.s)
      [] j.t = "array" ->
             PyList([i \in 1..Len(j.items) |-> json_loads(j.items[i])])
      [] j.t = "object" ->
             PyDict([i \in 1..Len(j.items) |-> json_loads(j.items[i])])
      [] OTHER -> PyNone

\* the messages the callers produce: {"ids": [1, 2]} and {7: (1, 2)}
Messages ==
    { PyDict(<<PyStr("ids"), PyList(<<PyInt(1), PyInt(2)>>)>>),
      PyDict(<<PyInt(7), PyTuple(<<PyInt(1), PyInt(2)>>)>>) }

\* a set, which json.dumps does not serialize
PySet(items) == Value("set", "", 0, items)

\* json.dumps(v) returns; it raises TypeError on a set, at any depth
RECURSIVE Serializable(_)
Serializable(v) ==
    /\ v.t # "set"
    /\ \A i \in 1..Len(v.items) : Serializable(v.items[i])

\* the messages of the producers: those above and the set {1}
ProductMessages == Messages \cup { PySet(<<PyInt(1)>>) }

(***************************************************************************)
(* The stream queue_name of the store and its one consumer group.  The     *)
(* entry ids are 1, 2, ... in the order of XADD.                           *)
(***************************************************************************)
Consumers == {"c1", "c2"}
\* the attempts of queue_product: for _ in range(3)
ProductAttempts == 3

NoStream == [exists |-> FALSE, entries |-> <<>>]
NoGroup == [exists |-> FALSE, last_id |-> 0, pel |-> {}, backlog |-> 0]

\* XADD queue {"message": payload}
xadd(s, payload) == [exists |-> TRUE, entries |-> Append(s.entries, payload)]

\* the id a new group starts after: `$`, the end of the stream
StartAtEnd(entries) == Len(entries)

\* the id a new group starts after: id="0", the origin of the stream
StartId(entries) == 0

\* XGROUP CREATE queue group id="0" mkstream=True
xgroup_create(s) ==
    [exists |-> TRUE, last_id |-> StartId(s.entries), pel |-> {},
     backlog |-> Len(s.entries)]

\* the smallest element of a non-empty set of ids
Oldest(ids) == CHOOSE i \in ids : \A k \in ids : i <= k

\* the ids pending for consumer c
PendingOf(pel, c) == {e[1] : e \in {x \in pel : x[2] = c}}

\* XREADGROUP group c count=1 streams {queue: msg_id}: the id it returns,
\* 0 for none.  ">": the first entry never delivered to the group; "0":
\* the oldest entry pending for c.
xreadgroup(g, entries, c, msg_id) ==
    IF msg_id = ">"
    THEN IF g.last_id < Len(entries) THEN g.last_id + 1 ELSE 0
    ELSE IF PendingOf(g.pel, c) # {} THEN Oldest(PendingOf(g.pel, c)) ELSE 0

\* XPENDING without consumername: the oldest pending id of the group
xpending_any(pel, c) ==
    IF pel = {} THEN 0 ELSE Oldest({e[1] : e \in pel})

\* XPENDING queue group 0 10000000000000 1 c: the oldest pending id of c,
\* 0 for none
xpending_range(pel, c) ==
    IF PendingOf(pel, c) = {} THEN 0 ELSE Oldest(PendingOf(pel, c))

\* XRANGE queue min count=1 read from the start of the stream
xrange_first(entries, min) == IF Len(entries) > 0 THEN 1 ELSE 0

\* XRANGE queue min count=1: the first entry whose id is at least min,
\* 0 for none
xrange(entries, min) ==
    IF \E i \in 1..Len(entries) : i >= min
    THEN Oldest({i \in 1..Len(entries) : i >= min})
    ELSE 0

\* XACK that leaves the pending list as it is
xack_kept(pel, id) == pel

\* XACK queue group id
xack(pel, id) == {e \in pel : e[1] # id}

\* Payload.__init__: the handle of entry id, read from payload
\* kind: how the process came to it, "delivered" or "redelivered" by
\* queue_consumer, "unacked" by get_unacked_for, "recovered" by
\* get_unacked_for as the first result after a restart; "none" after a call
\* that returned None, "lost" after a restart
NoHandle == [kind |-> "none", id |-> 0, message |-> PyNone]
LostHandle == [kind |-> "lost", id |-> 0, message |-> PyNone]
Payload(kind, id, payload) ==
    [kind |-> kind, id |-> id, message |-> json_loads(payload)]

\* the outcome of a call of a consumer: nothing to note, an exception
\* other than "no such key", or a stream or group that consumer c did not
\* find
NoEvent == <<"none", "">>
Raised == <<"raised", "">>
NotFound(what, c) == <<what, c>>

\* a consumer process that runs no call and holds no handle
IdleConsumer ==
    [pc        |-> "idle",
     msg_id    |-> ">",       \* the msg_id argument of its queue_consumer
     pend_id   |-> 0,         \* pendings[0]["message_id"]
     handle    |-> NoHandle]  \* the Payload its last call returned

Producers == {"p1", "p2"}

\* a producer process that runs no queue_product call
IdleProducer ==
    [pc       |-> "idle",    \* "attempt": in the for loop; "done": returned
     message  |-> PyNone,    \* the message argument
     attempts |-> 0,         \* iterations of the for loop so far
     result   |-> "none",    \* the value returned: "true" or "false"
     appended |-> 0]         \* entries the call has added to the stream

\* the operations of the claim on the client, RedisDB and Payload
Operations ==
    {"exist", "get", "set_obj", "set", "sadd", "srem", "smembers", "zadd",
     "zcount", "zpopmin", "zrangebyscore", "transaction", "queue_product",
     "queue_consumer", "ack", "get_unacked_for", "queue_info"}

\* no call made yet
NoCall ==
    [op |-> "none", failed |-> FALSE, result |-> "None", opens |-> 0]

VARIABLES
    lock_store,      \* the key kb_id: [present, value, ttl]
    lock_event,      \* what the last step did with the key: "none", "set",
                     \* "expire" (its TTL ran out), "delete" (clean_lock),
                     \* or what release_lock logged: "unacquired",
                     \* "released", "mismatch", "raised"
    worker,          \* the worker processes
    graph_store,     \* the persisted graph and document ids
    stream,          \* the stream: [exists, entries], entries[i] the
                     \* "message" field of the entry with id i
    sent,            \* sent[i]: the message queue_product was given for
                     \* the entry with id i
    group,           \* the consumer group: [exists, last_id, pel, backlog],
                     \* pel the set of <<id, consumer>> pending, backlog
                     \* the length of the stream when the group was created
    consumer,        \* the consumer processes
    acked,           \* the ids on which ack() returned true
    delivered,       \* the handles queue_consumer returned for new
                     \* entries, in the order of delivery
    queue_event,     \* <<what, who>>: what the last call of a consumer
                     \* that returned had met: "no_stream" ("no such
                     \* key") or "no_group", with the consumer, "raised"
                     \* (another exception of the store), or "none"
    producer,        \* the producer processes
    REDIS,           \* self.REDIS: the n-th client object
    last_call        \* the last call on the client: [op, failed, result,
                     \* opens], failed: a store call of it raised; opens:
                     \* the __open__ calls it made

lockVars == <<lock_store, lock_event, worker, graph_store>>
queueVars ==
    <<stream, sent, group, consumer, acked, delivered, queue_event>>
productVars == <<producer>>
clientVars == <<REDIS, last_call>>
vars == <<lockVars, queueVars, productVars, clientVars>>

Init ==
    /\ lock_store = NoKey
    /\ lock_event = "none"
    /\ worker = [w \in Workers |-> IdleWorker]
    /\ graph_store = NoGraph
    /\ stream = NoStream
    /\ sent = <<>>
    /\ group = NoGroup
    /\ consumer = [c \in Consumers |-> IdleConsumer]
    /\ acked = {}
    /\ delivered = <<>>
    /\ queue_event = NoEvent
    /\ producer = [q \in Producers |-> IdleProducer]
    /\ REDIS = 1
    /\ last_call = NoCall

(***************************************************************************)
(* RedisDistributedLock                                                    *)
(***************************************************************************)
\* uuid.uuid4() in process w: a value that nothing else holds.  The values
\* of a process differ from those of the others; its new value differs from
\* its last one when the store still holds that one.
uuid4(w) == IF lock_store.value = <<w, 1>> THEN <<w, 2>> ELSE <<w, 1>>

\* __init__: self.lock_value = str(uuid.uuid4()); self._lock_acquired = False
NewInstance(w, k, b) ==
    [IdleWorker EXCEPT !.kind = k, !.batch = b, !.lock_value = uuid4(w)]

\* the first lines of acquire_lock:
\* end_time = time.time() + self.acquire_timeout
BeginAcquire(p) ==
    [p EXCEPT !.pc = "acquire", !.time_left = AcquireTimeoutTicks]

\* where control goes when acquire_lock has returned: a pipeline is inside
\* `with RedisDistributedLock(...)`, whose __enter__ returns self or None
\* and whose body runs in both cases; a direct user gets the result back.
AfterAcquire(k, ok) == IF k = "direct" THEN "direct" ELSE "get_graph"

\* time.sleep(max(0.1, (end_time - time.time()) / 10))
SleepTime(remaining) == Max(MinSleepTicks, remaining \div SleepDivisor)

\* one iteration of the while loop of acquire_lock, or its exit
acquire_lock(w) ==
    LET p == worker[w] IN
    /\ p.pc = "acquire"
    /\ IF p.time_left > 0
       THEN LET r == SetNx(lock_store, p.lock_value, TtlTicks) IN
            IF r[2]
            THEN /\ lock_store' = r[1]
                 /\ lock_event' = "set"
                 /\ worker' = [worker EXCEPT ![w] =
                        [p EXCEPT !._lock_acquired = TRUE,
                                  !.acqs = @ + 1,
                                  !.time_left = 0,
                                  !.elapsed = 0,
                                  !.pc = AfterAcquire(p.kind, TRUE)]]
            ELSE /\ lock_store' = r[1]
                 /\ lock_event' = "none"
                 /\ worker' = [worker EXCEPT ![w] =
                        [p EXCEPT !.sleep_left = SleepTime(p.time_left),
                                  !.pc = "sleep"]]
       ELSE /\ worker' = [worker EXCEPT ![w] =
                   [p EXCEPT !.time_left = 0,
                             !.pc = AfterAcquire(p.kind, FALSE)]]
            /\ lock_event' = "none"
            /\ UNCHANGED lock_store
    /\ UNCHANGED graph_store
    /\ UNCHANGED <<queueVars, productVars, clientVars>>

\* time.sleep returns
Wake(w) ==
    /\ worker[w].pc = "sleep"
    /\ worker[w].sleep_left = 0
    /\ worker' = [worker EXCEPT ![w].pc = "acquire"]
    /\ lock_event' = "none"
    /\ UNCHANGED <<lock_store, graph_store>>
    /\ UNCHANGED <<queueVars, productVars, clientVars>>

\* a release_lock that leaves self._lock_acquired as it was
FlagKept(p) == p._lock_acquired

\* self._lock_acquired after release_lock (the finally clause)
FlagAfterRelease(p) == FALSE

\* release_lock of the instance of process p; fail: REDIS.eval raises.
\* What it logs.
ReleaseLog(p, fail) ==
    IF ~p._lock_acquired THEN "unacquired"
    ELSE IF fail THEN "raised"
    ELSE IF CompareAndDelete(lock_store, p.lock_value)[2] = 1 THEN "released"
    ELSE "mismatch"

\* the instance after release_lock
Released(p) ==
    IF ~p._lock_acquired THEN p
    ELSE [p EXCEPT !.evals = @ + 1, !._lock_acquired = FlagAfterRelease(p),
                   !.elapsed = 0]

\* the store after release_lock
release_lock(p, fail) ==
    /\ lock_event' = ReleaseLog(p, fail)
    /\ lock_store' = IF ~p._lock_acquired \/ fail THEN lock_store
                     ELSE CompareAndDelete(lock_store, p.lock_value)[1]

\* clean_lock(lock_key): REDIS.delete(lock_key)
clean_lock ==
    /\ lock_store.present
    /\ lock_store' = Delete(lock_store)
    /\ lock_event' = "delete"
    /\ UNCHANGED <<worker, graph_store>>
    /\ UNCHANGED <<queueVars, productVars, clientVars>>

(***************************************************************************)
(* The pipelines of graphrag/general/index.py                              *)
(***************************************************************************)
\* Dealer.__init__ up to the with statement: extraction, the fresh graph,
\* then RedisDistributedLock(kb_id, 60*30).__enter__()
Dealer(w, b) ==
    /\ worker[w].pc = "idle"
    /\ graph_store.graph.weight + b.rel <= MaxWeight
    /\ worker' = [worker EXCEPT ![w] = BeginAcquire(NewInstance(w, "Dealer", b))]
    /\ lock_event' = "none"
    /\ UNCHANGED <<lock_store, graph_store>>
    /\ UNCHANGED <<queueVars, productVars, clientVars>>

\* WithResolution.__init__ / WithCommunity.__init__ up to the with statement
WithResolution(w) ==
    /\ worker[w].pc = "idle"
    /\ worker' = [worker EXCEPT ![w] =
           BeginAcquire(NewInstance(w, "WithResolution", NoBatch))]
    /\ lock_event' = "none"
    /\ UNCHANGED <<lock_store, graph_store>>
    /\ UNCHANGED <<queueVars, productVars, clientVars>>

WithCommunity(w) ==
    /\ worker[w].pc = "idle"
    /\ worker' = [worker EXCEPT ![w] =
           BeginAcquire(NewInstance(w, "WithCommunity", NoBatch))]
    /\ lock_event' = "none"
    /\ UNCHANGED <<lock_store, graph_store>>
    /\ UNCHANGED <<queueVars, productVars, clientVars>>

\* the body is left: by its end, by a return or by an exception
Leave(p, how) ==
    [p EXCEPT !.pc = "exit", !.exit_by = how, !.elapsed = 0, !.local = NoGraph]

\* old_graph, old_doc_ids = get_graph(tenant_id, kb_id); fail: it raises.
\* WithResolution and WithCommunity return when the graph is falsy.
get_graph(w, fail) ==
    LET p == worker[w] IN
    /\ p.pc = "get_graph"
    /\ worker' = [worker EXCEPT ![w] =
           IF fail THEN Leave(p, "raise")
           ELSE IF p.kind # "Dealer" /\ Falsy(graph_store)
                THEN Leave(p, "return")
                ELSE [p EXCEPT !.local = graph_store, !.pc = "transform"]]
    /\ lock_event' = "none"
    /\ UNCHANGED <<lock_store, graph_store>>
    /\ UNCHANGED <<queueVars, productVars, clientVars>>

\* a Dealer that persists the graph of its batch alone
DealerOverwrite(old, b) ==
    [exists  |-> TRUE,
     graph   |-> FreshGraph(b),
     doc_ids |-> IF old.doc_ids # {} THEN b.docs \cup old.doc_ids ELSE b.docs]

\* Dealer, lines 86-107: merge with the old graph, metrics, union of doc ids
DealerTransform(old, b) ==
    [exists  |-> TRUE,
     graph   |-> IF old.exists THEN graph_merge(old.graph, FreshGraph(b))
                 ELSE FreshGraph(b),
     doc_ids |-> IF old.doc_ids # {} THEN b.docs \cup old.doc_ids ELSE b.docs]

\* EntityResolution: reso.graph without the removed entities
Resolved(old, removed) ==
    [exists  |-> TRUE,
     graph   |-> [nodes  |-> old.graph.nodes \ removed,
                  weight |-> IF removed = {} THEN old.graph.weight ELSE 0],
     doc_ids |-> old.doc_ids]

\* the collaborator call between get_graph and set_graph; fail: it, or
\* update_nodes_pagerank_nhop_neighbour, raises
transform(w, removed, fail) ==
    LET p == worker[w] IN
    /\ p.pc = "transform"
    /\ removed \subseteq p.local.graph.nodes
    /\ p.kind = "WithResolution" \/ removed = {}
    /\ worker' = [worker EXCEPT ![w] =
           IF fail THEN Leave(p, "raise")
           ELSE CASE p.kind = "Dealer" ->
                       [p EXCEPT !.pc = "set_graph",
                                 !.local = DealerTransform(@, p.batch)]
                  [] p.kind = "WithResolution" ->
                       [p EXCEPT !.pc = "set_graph",
                                 !.local = Resolved(@, removed),
                                 !.batch = [NoBatch EXCEPT !.ents = removed]]
                  [] OTHER -> [p EXCEPT !.pc = "set_graph"]]
    /\ lock_event' = "none"
    /\ UNCHANGED <<lock_store, graph_store>>
    /\ UNCHANGED <<queueVars, productVars, clientVars>>

\* set_graph(tenant_id, kb_id, self.graph, docids); fail: it raises
set_graph(w, fail) ==
    LET p == worker[w] IN
    /\ p.pc = "set_graph"
    /\ IF fail
       THEN /\ worker' = [worker EXCEPT ![w] = Leave(p, "raise")]
            /\ UNCHANGED graph_store
       ELSE /\ worker' = [worker EXCEPT ![w] = Leave(p, "end")]
            /\ graph_store' = p.local
    /\ lock_event' = "none"
    /\ UNCHANGED lock_store
    /\ UNCHANGED <<queueVars, productVars, clientVars>>

\* index calls after every way of leaving the body
AfterWithAnyExit(k, how) ==
    IF k \in {"WithResolution", "WithCommunity"} THEN "index_delete"
    ELSE "idle"

\* WithCommunity inserting its reports without the delete before it
AfterWithInsertFirst(k, how) ==
    IF how = "end" /\ k = "WithResolution" THEN "index_delete"
    ELSE IF how = "end" /\ k = "WithCommunity" THEN "index_insert"
    ELSE "idle"

\* what follows the with statement: the index calls after a body that ran
\* to its end; after a return or an exception the run is over
AfterWith(k, how) ==
    IF how = "end" /\ k \in {"WithResolution", "WithCommunity"}
    THEN "index_delete"
    ELSE "idle"

\* the with statement without its __exit__
ExitWithoutRelease(w, fail) ==
    LET p == worker[w] IN
    /\ p.pc = "exit"
    /\ lock_event' = "none"
    /\ worker' = [worker EXCEPT ![w] =
           IF AfterWith(p.kind, p.exit_by) = "idle" THEN IdleWorker
           ELSE [p EXCEPT !.pc = AfterWith(p.kind, p.exit_by),
                          !.exit_by = "none"]]
    /\ UNCHANGED <<lock_store, graph_store>>
    /\ UNCHANGED <<queueVars, productVars, clientVars>>

\* __exit__: release_lock, then the statement after the with block, the
\* caller of the return, or the handler of the exception
__exit__(w, fail) ==
    LET p == worker[w] IN
    /\ p.pc = "exit"
    /\ release_lock(p, fail)
    /\ worker' = [worker EXCEPT ![w] =
           IF AfterWith(p.kind, p.exit_by) = "idle" THEN IdleWorker
           ELSE [Released(p) EXCEPT !.pc = AfterWith(p.kind, p.exit_by),
                                    !.exit_by = "none"]]
    /\ UNCHANGED graph_store
    /\ UNCHANGED <<queueVars, productVars, clientVars>>

\* settings.docStoreConn.delete(...) after the with block
index_delete(w) ==
    LET p == worker[w] IN
    /\ p.pc = "index_delete"
    /\ worker' = [worker EXCEPT ![w] =
           IF p.kind = "WithCommunity" THEN [p EXCEPT !.pc = "index_insert"]
           ELSE IdleWorker]
    /\ lock_event' = "none"
    /\ UNCHANGED <<lock_store, graph_store>>
    /\ UNCHANGED <<queueVars, productVars, clientVars>>

\* settings.docStoreConn.insert(...) of the community reports
index_insert(w) ==
    /\ worker[w].pc = "index_insert"
    /\ worker' = [worker EXCEPT ![w] = IdleWorker]
    /\ lock_event' = "none"
    /\ UNCHANGED <<lock_store, graph_store>>
    /\ UNCHANGED <<queueVars, productVars, clientVars>>

(***************************************************************************)
(* Direct users of the lock API                                            *)
(***************************************************************************)
\* lock = RedisDistributedLock(kb_id)
NewLock(w) ==
    /\ worker[w].pc = "idle"
    /\ worker' = [worker EXCEPT ![w] =
           [NewInstance(w, "direct", NoBatch) EXCEPT !.pc = "direct"]]
    /\ lock_event' = "none"
    /\ UNCHANGED <<lock_store, graph_store>>
    /\ UNCHANGED <<queueVars, productVars, clientVars>>

\* lock.acquire_lock()
CallAcquire(w) ==
    /\ worker[w].pc = "direct"
    /\ worker[w].acqs < MaxAcquires
    /\ worker' = [worker EXCEPT ![w] = BeginAcquire(@)]
    /\ lock_event' = "none"
    /\ UNCHANGED <<lock_store, graph_store>>
    /\ UNCHANGED <<queueVars, productVars, clientVars>>

\* lock.release_lock()
CallRelease(w, fail) ==
    /\ worker[w].pc = "direct"
    /\ release_lock(worker[w], fail)
    /\ worker' = [worker EXCEPT ![w] = Released(@)]
    /\ UNCHANGED graph_store
    /\ UNCHANGED <<queueVars, productVars, clientVars>>

\* the user stops using the instance, released or not
DropLock(w) ==
    /\ worker[w].pc = "direct"
    /\ worker' = [worker EXCEPT ![w] = IdleWorker]
    /\ lock_event' = "none"
    /\ UNCHANGED <<lock_store, graph_store>>
    /\ UNCHANGED <<queueVars, productVars, clientVars>>

(***************************************************************************)
(* Time                                                                    *)
(***************************************************************************)
Min(a, b) == IF a <= b THEN a ELSE b

\* a worker whose next step takes no time: an attempt of acquire_lock that
\* is due
Due(p) == p.pc = "acquire" \/ (p.pc = "sleep" /\ p.sleep_left = 0)

\* a worker for which the time since acquire_lock returned is counted: it
\* is inside the with body, or it is a direct user that holds an acquired
\* instance
Running(p) == p.pc \in BodyPcs \/ (p.kind = "direct" /\ p._lock_acquired)

\* one tick passes for process p
Older(p) ==
    [p EXCEPT !.time_left = IF p.pc = "sleep" THEN @ - 1 ELSE @,
              !.sleep_left = Max(@ - 1, 0),
              !.elapsed = IF Running(p) THEN Min(@ + 1, TtlTicks) ELSE @]

\* time in a store whose keys do not expire
TickNoExpiry ==
    /\ \/ lock_store.present
       \/ \E w \in Workers : worker[w].pc = "sleep" \/ Running(worker[w])
    /\ \A w \in Workers : ~Due(worker[w])
    /\ lock_store' = lock_store
    /\ lock_event' = "none"
    /\ worker' = [w \in Workers |-> Older(worker[w])]
    /\ UNCHANGED graph_store
    /\ UNCHANGED <<queueVars, productVars, clientVars>>

\* one tick passes: the key's TTL runs down and the key expires at 0, the
\* deadlines and sleeps of the acquiring workers run down
Tick ==
    /\ \/ lock_store.present
       \/ \E w \in Workers : worker[w].pc = "sleep" \/ Running(worker[w])
    /\ \A w \in Workers : ~Due(worker[w])
    /\ IF lock_store.present /\ lock_store.ttl <= 1
       THEN /\ lock_store' = NoKey
            /\ lock_event' = "expire"
       ELSE /\ lock_store' = [lock_store EXCEPT !.ttl = Max(@ - 1, 0)]
            /\ lock_event' = "none"
    /\ worker' = [w \in Workers |-> Older(worker[w])]
    /\ UNCHANGED graph_store
    /\ UNCHANGED <<queueVars, productVars, clientVars>>

NextLock ==
    \/ \E w \in Workers, b \in Batches : Dealer(w, b)
    \/ \E w \in Workers : WithResolution(w)
    \/ \E w \in Workers : WithCommunity(w)
    \/ \E w \in Workers : acquire_lock(w)
    \/ \E w \in Workers : Wake(w)
    \/ \E w \in Workers, fail \in BOOLEAN : get_graph(w, fail)
    \/ \E w \in Workers, removed \in SUBSET {"B"}, fail \in BOOLEAN :
           transform(w, removed, fail)
    \/ \E w \in Workers, fail \in BOOLEAN : set_graph(w, fail)
    \/ \E w \in Workers, fail \in BOOLEAN : __exit__(w, fail)
    \/ \E w \in Workers : index_delete(w)
    \/ \E w \in Workers : index_insert(w)
    \/ \E w \in Workers : NewLock(w)
    \/ \E w \in Workers : CallAcquire(w)
    \/ \E w \in Workers, fail \in BOOLEAN : CallRelease(w, fail)
    \/ \E w \in Workers : DropLock(w)
    \/ clean_lock
    \/ Tick

SpecLock == Init /\ [][NextLock]_vars

(***************************************************************************)
(* Holders that stop: direct users of the lock API, one of which may stop  *)
(* for good while its instance is acquired.                                *)
(***************************************************************************)
\* the process of w stops (it is killed, or it hangs) after acquire_lock
\* returned true and before any release_lock
Crash(w) ==
    /\ worker[w].pc = "direct"
    /\ worker[w]._lock_acquired
    /\ worker' = [worker EXCEPT ![w] =
           [IdleWorker EXCEPT !.pc = "crashed",
                              !.lock_value = worker[w].lock_value]]
    /\ lock_event' = "none"
    /\ UNCHANGED <<lock_store, graph_store>>
    /\ UNCHANGED <<queueVars, productVars, clientVars>>

NextCrash ==
    \/ \E w \in Workers : NewLock(w)
    \/ \E w \in Workers : CallAcquire(w)
    \/ \E w \in Workers : acquire_lock(w)
    \/ \E w \in Workers : Wake(w)
    \/ \E w \in Workers, fail \in BOOLEAN : CallRelease(w, fail)
    \/ \E w \in Workers : Crash(w)
    \/ Tick

\* time goes on, and a process that is inside acquire_lock and has not
\* stopped goes on with its loop
Fairness ==
    /\ WF_vars(Tick)
    /\ \A w \in Workers : WF_vars(acquire_lock(w)) /\ WF_vars(Wake(w))

SpecCrash == Init /\ [][NextCrash]_vars /\ Fairness

(***************************************************************************)
(* The pipelines alone: every lock instance is the one of a with           *)
(* statement of index.py, and nothing calls clean_lock.                    *)
(***************************************************************************)
\* a step of a Dealer run of a worker of ws on a batch of bs, or of time
DealerNext(ws, bs) ==
    \/ \E w \in ws, b \in bs : Dealer(w, b)
    \/ \E w \in ws : acquire_lock(w)
    \/ \E w \in ws : Wake(w)
    \/ \E w \in ws, fail \in BOOLEAN : get_graph(w, fail)
    \/ \E w \in ws, removed \in SUBSET {"B"}, fail \in BOOLEAN :
           transform(w, removed, fail)
    \/ \E w \in ws, fail \in BOOLEAN : set_graph(w, fail)
    \/ \E w \in ws, fail \in BOOLEAN : __exit__(w, fail)
    \/ Tick

\* concurrent Dealer runs of all workers for the same kb_id
NextDealer == DealerNext(Workers, DocBatches)

SpecDealer == Init /\ [][NextDealer]_vars

\* sequential runs of the three pipelines: one worker, a run begins when
\* the last one is over
NextSequential ==
    \/ DealerNext({"w1"}, WeightedBatches)
    \/ WithResolution("w1")
    \/ WithCommunity("w1")
    \/ index_delete("w1")
    \/ index_insert("w1")

SpecSequential == Init /\ [][NextSequential]_vars

(***************************************************************************)
(* Properties of the lock and of the pipelines                             *)
(***************************************************************************)
\* a pipeline run that is inside the body of its with statement
InBody(w) == worker[w].kind \in Pipelines /\ worker[w].pc \in BodyPcs

\* an instance whose acquire_lock returned true less than the TTL ago and
\* that has not called release_lock since
Holding(w) ==
    /\ worker[w]._lock_acquired
    /\ Running(worker[w])
    /\ worker[w].elapsed < TtlTicks

\* the stored value is the token of the instance of w
OwnsKey(w) == lock_store.present /\ lock_store.value = worker[w].lock_value

\* C1: as long as no run has been inside the body of its with statement
\* for the TTL or longer, at most one pipeline run is inside that body.
C1_OneRunInCriticalSection ==
    (\A w \in Workers : InBody(w) => worker[w].elapsed < TtlTicks)
        => Cardinality({w \in Workers : InBody(w)}) <= 1

\* C2: a pipeline run whose acquire_lock timed out (no SET NX of its
\* instance succeeded) has not called get_graph and is not about to call
\* set_graph.
C2_NoBodyAfterTimeout ==
    \A w \in Workers :
        worker[w].kind \in Pipelines /\ worker[w].acqs = 0
            => worker[w].pc \notin {"transform", "set_graph"}

\* C3: two distinct instances are never both in the state "acquire_lock
\* returned true, release_lock not called since, TTL not elapsed since":
\* a second acquire returns true only after the first holder released or
\* its TTL elapsed.
C3_OneSuccessUntilReleaseOrExpiry ==
    \A a, b \in Workers : Holding(a) /\ Holding(b) => a = b

\* C4: a release_lock that runs the compare-and-delete deletes the key if
\* and only if the stored value is the releasing instance's token; on any
\* other stored value the key, its value and its TTL are left as they were.
C4_ReleaseIntegrity ==
    [][\A w \in Workers :
          worker'[w] # worker[w] /\ lock_event' \in {"released", "mismatch"}
          => /\ worker[w]._lock_acquired
             /\ (lock_event' = "released") <=> OwnsKey(w)
             /\ IF OwnsKey(w) THEN ~lock_store'.present
                ELSE lock_store' = lock_store]_lockVars

\* C4 witness: an instance released after its key had expired and another
\* instance had acquired it; the other instance's key is still there.
C4_Witness ==
    /\ lock_event = "mismatch"
    /\ \E w \in Workers : OwnsKey(w) /\ worker[w]._lock_acquired

\* C5: a step that makes the key disappear is its TTL expiry or the
\* compare-and-delete of the acquired instance whose token is stored.
C5_DeletedOnlyByOwnerOrExpiry ==
    [][lock_store.present /\ ~lock_store'.present
       => \/ lock_event' = "expire"
          \/ \E w \in Workers : /\ OwnsKey(w)
                                /\ worker[w]._lock_acquired
                                /\ worker'[w] # worker[w]
                                /\ lock_event' = "released"]_lockVars

C7_IdempotentRelease ==
    [][/\ \A w \in Workers : worker'[w].evals <= worker'[w].acqs
       /\ lock_event' = "unacquired" => lock_store' = lock_store]_lockVars

\* C7 witness: w1 acquired once and released once, w2 acquired the key in
\* between and is inside its with body, and the last step was another
\* release_lock, which can only be w1's.
C7_Witness ==
    /\ lock_event = "unacquired"
    /\ worker["w1"].kind = "direct"
    /\ worker["w1"].acqs = 1
    /\ worker["w1"].evals = 1
    /\ worker["w2"].pc = "get_graph"
    /\ OwnsKey("w2")

\* C16: an acquire_lock call is never blocked past its deadline: while the
\* call is in its loop, attempting or sleeping, end_time - time.time() is
\* not negative.
C16_ReturnsByDeadline ==
    \A w \in Workers :
        worker[w].pc \in {"acquire", "sleep"} => worker[w].time_left >= 0

\* the step is one of the run of w: the run moves on
Moves(w) == worker'[w].pc # worker[w].pc

\* C12: the persisted set of document ids only grows: no step takes an id
\* out of it.
C12_DocIdsOnlyGrow ==
    [][graph_store.doc_ids \subseteq graph_store'.doc_ids]_vars

\* C13: in sequential runs, a Dealer's set_graph persists the merge of the
\* graph persisted before with the graph of its batch (the fresh graph
\* alone when nothing was persisted): the nodes of both, the weight of the
\* edge (A, B) summed, and the union of the persisted doc ids with the
\* batch's.
C13_DealerPersistsMerge ==
    [][\A w \in Workers :
          /\ worker[w].kind = "Dealer"
          /\ worker[w].pc = "set_graph"
          /\ worker'[w].exit_by = "end"
          => LET b == worker[w].batch IN
             /\ graph_store'.exists
             /\ graph_store'.graph.nodes =
                    graph_store.graph.nodes \cup b.ents
                        \cup (IF b.rel > 0 THEN Entities ELSE {})
             /\ graph_store'.graph.weight = graph_store.graph.weight + b.rel
             /\ graph_store'.doc_ids = graph_store.doc_ids \cup b.docs]_vars

\* C13 witness: a Dealer run has just persisted the edge (A, B) with weight
\* 2 for a batch whose relation has weight 1 and whose doc id was recorded
\* before.
C13_Witness ==
    /\ worker["w1"].kind = "Dealer"
    /\ worker["w1"].pc = "exit"
    /\ worker["w1"].exit_by = "end"
    /\ worker["w1"].batch.rel = 1
    /\ graph_store.graph.weight = 2
    /\ graph_store.doc_ids = worker["w1"].batch.docs

\* C14: a WithResolution / WithCommunity run whose get_graph finds no graph
\* or a graph without nodes leaves the body at once (by the return after
\* callback(-1), or by the exception of a get_graph that raised), and the
\* __exit__ of a returning run calls release_lock, which deletes the key
\* the run holds unless the compare-and-delete raises, and ends the run:
\* no collaborator, no set_graph, no index call; the persisted graph and
\* doc ids are left as they were.
C14_MissingGraphAborts ==
    [][\A w \in Workers :
          worker[w].kind \in {"WithResolution", "WithCommunity"} /\ Moves(w)
          => /\ worker[w].pc = "get_graph" /\ Falsy(graph_store)
                => /\ worker'[w].pc = "exit"
                   /\ worker'[w].exit_by \in {"return", "raise"}
                   /\ graph_store' = graph_store
             /\ worker[w].pc = "exit" /\ worker[w].exit_by = "return"
                => /\ worker'[w] = IdleWorker
                   /\ graph_store' = graph_store
                   /\ lock_event' \in
                          {"released", "mismatch", "raised", "unacquired"}
                   /\ worker[w]._lock_acquired /\ OwnsKey(w)
                          /\ lock_event' # "raised"
                      => ~lock_store'.present]_vars

\* C14 witness: a WithCommunity run that holds the key has found a
\* persisted graph without nodes and is about to leave the with statement.
C14_Witness ==
    \E w \in Workers :
        /\ worker[w].kind = "WithCommunity"
        /\ worker[w].pc = "exit"
        /\ worker[w].exit_by = "return"
        /\ OwnsKey(w)
        /\ graph_store.exists
        /\ graph_store.graph.nodes = {}

\* C17: the stages of a run follow one another in the order acquire_lock,
\* get_graph, collaborator, set_graph, release_lock, index delete, index
\* insert: a stage is entered from the one before it only, the index calls
\* begin after a set_graph that persisted and after release_lock, the
\* instance is not acquired while they run, and the insert (WithCommunity
\* only) follows the delete.
C17_IndexAfterRelease ==
    [][\A w \in Workers :
          worker[w].kind \in Pipelines /\ Moves(w)
          => /\ worker'[w].pc = "get_graph" => worker[w].pc = "acquire"
             /\ worker'[w].pc = "transform" => worker[w].pc = "get_graph"
             /\ worker'[w].pc = "set_graph" => worker[w].pc = "transform"
             /\ worker'[w].pc = "exit" /\ worker'[w].exit_by = "end"
                => worker[w].pc = "set_graph" /\ graph_store' = worker[w].local
             /\ worker'[w].pc = "index_delete"
                => /\ worker[w].pc = "exit" /\ worker[w].exit_by = "end"
                   /\ lock_event' \in
                          {"released", "mismatch", "raised", "unacquired"}
                   /\ ~worker'[w]._lock_acquired
             /\ worker'[w].pc = "index_insert"
                => /\ worker[w].pc = "index_delete"
                   /\ worker[w].kind = "WithCommunity"
                   /\ ~worker'[w]._lock_acquired
             /\ worker[w].pc \in {"index_delete", "index_insert"}
                => /\ graph_store' = graph_store
                   /\ lock_store' = lock_store]_vars

\* C17 witness: a WithCommunity run that acquired the key, persisted its
\* graph, released the key and deleted the old reports is about to insert
\* the new ones.
C17_Witness ==
    \E w \in Workers :
        /\ worker[w].kind = "WithCommunity"
        /\ worker[w].pc = "index_insert"
        /\ worker[w].acqs = 1
        /\ worker[w].evals = 1
        /\ ~OwnsKey(w)

\* C18: a Dealer that acquired the key and is no longer its owner (it
\* stayed in the body past the TTL) still persists its graph, and its
\* __exit__ leaves the key, its value and its TTL as they are.
C18_OverrunHolderStillWrites ==
    [][\A w \in Workers :
          worker[w]._lock_acquired /\ ~OwnsKey(w) /\ Moves(w)
          => /\ worker[w].pc = "set_graph" /\ worker'[w].exit_by = "end"
                => graph_store' = worker[w].local
             /\ worker[w].pc = "exit"
                => /\ lock_store' = lock_store
                   /\ lock_event' \in {"mismatch", "raised"}]_vars

\* C18 witness, the lost update: both workers acquired the key and ran
\* their bodies to the end, w2 still owns the key (w1's expired), w2
\* persisted the doc id d2, and the persisted set is w1's, without d2.
C18_Witness ==
    /\ worker["w1"].pc = "exit" /\ worker["w1"].exit_by = "end"
    /\ worker["w2"].pc = "exit" /\ worker["w2"].exit_by = "end"
    /\ worker["w1"].acqs = 1 /\ worker["w2"].acqs = 1
    /\ OwnsKey("w2")
    /\ worker["w2"].batch.docs = {"d2"}
    /\ graph_store.doc_ids = {"d1"}

\* the instance of w stopped while it was acquired
Crashed(w) == worker[w].pc = "crashed"

\* C19: the key of a holder that stopped without release_lock is gone
\* after a while (nothing but its expiry removes it), and from then on a
\* worker that calls acquire_lock again and again has a call that returns
\* true.
C19_NoDeadlockAfterCrash ==
    \A a \in Workers : \A b \in Workers \ {a} :
        /\ (Crashed(a) /\ OwnsKey(a)) ~> ~lock_store.present
        /\ []<>(worker[b].pc = "acquire")
              => [](Crashed(a) /\ OwnsKey(a)
                      => <>(lock_event = "set" /\ OwnsKey(b)))

\* C19 witness: w1 stopped while its instance was acquired, and a SET NX
\* of w2 has just succeeded.
C19_Witness ==
    /\ Crashed("w1")
    /\ worker["w1"].lock_value # NoToken
    /\ lock_event = "set"
    /\ OwnsKey("w2")

(***************************************************************************)
(* The stream queue of RedisDB                                             *)
(***************************************************************************)
\* queue_product(queue, message); fails: the attempts whose pipeline raises
queue_product(m, fails) ==
    /\ Len(stream.entries) < MaxMsgs
    /\ IF fails < ProductAttempts
       THEN /\ stream' = xadd(stream, json_dumps(m))
            /\ sent' = Append(sent, m)
       ELSE UNCHANGED <<stream, sent>>
    /\ UNCHANGED <<group, consumer, acked, delivered, queue_event>>
    /\ UNCHANGED <<lockVars, productVars, clientVars>>

\* process c starts a call: the variable that held the handle of its last
\* call is the one the result goes to
Call(p) ==
    [p EXCEPT !.handle = IF @.kind = "lost" THEN LostHandle ELSE NoHandle]

\* the call of process c returns None
ReturnNone(p) ==
    [p EXCEPT !.pc = "idle", !.pend_id = 0, !.msg_id = ">", !.handle = NoHandle]

\* the call of process c returns the Payload h
Return(p, h) ==
    [p EXCEPT !.pc = "idle", !.pend_id = 0, !.msg_id = ">", !.handle = h]

\* a queue_consumer to which xinfo_groups answers "no groups" on a stream
\* that does not exist, so that it goes on to xgroup_create
queue_consumer_mkstream(c, msg_id, fail) ==
    LET p == consumer[c] IN
    /\ p.pc = "idle"
    /\ consumer' = [consumer EXCEPT ![c] =
           IF fail THEN ReturnNone(p)
           ELSE [Call(p) EXCEPT !.msg_id = msg_id,
                                !.pc = IF group.exists THEN "xreadgroup"
                                       ELSE "xgroup_create"]]
    /\ queue_event' = IF fail THEN Raised ELSE queue_event
    /\ UNCHANGED <<stream, sent, group, acked, delivered>>
    /\ UNCHANGED <<lockVars, productVars, clientVars>>

\* queue_consumer(queue, group, c, msg_id) up to xinfo_groups; fail: the
\* store raises.  On a stream that does not exist the store raises
\* "no such key".
queue_consumer(c, msg_id, fail) ==
    LET p == consumer[c] IN
    /\ p.pc = "idle"
    /\ consumer' = [consumer EXCEPT ![c] =
           IF fail \/ ~stream.exists THEN ReturnNone(p)
           ELSE [Call(p) EXCEPT !.msg_id = msg_id,
                                !.pc = IF group.exists THEN "xreadgroup"
                                       ELSE "xgroup_create"]]
    /\ queue_event' = IF fail THEN Raised
                      ELSE IF ~stream.exists THEN NotFound("no_stream", c)
                      ELSE queue_event
    /\ UNCHANGED <<stream, sent, group, acked, delivered>>
    /\ UNCHANGED <<lockVars, productVars, clientVars>>

\* queue_consumer: xgroup_create(queue, group, id="0", mkstream=True); on a
\* group that another process has created meanwhile the store raises
\* BUSYGROUP
queue_consumer_create(c, fail) ==
    LET p == consumer[c] IN
    /\ p.pc = "xgroup_create"
    /\ IF fail \/ group.exists
       THEN /\ consumer' = [consumer EXCEPT ![c] = ReturnNone(p)]
            /\ queue_event' = Raised
            /\ UNCHANGED group
       ELSE /\ consumer' = [consumer EXCEPT ![c].pc = "xreadgroup"]
            /\ UNCHANGED queue_event
            /\ group' = xgroup_create(stream)
    /\ UNCHANGED <<stream, sent, acked, delivered>>
    /\ UNCHANGED <<lockVars, productVars, clientVars>>

\* queue_consumer: xreadgroup and the Payload of what it returned
queue_consumer_read(c, fail) ==
    LET p == consumer[c]
        id == xreadgroup(group, stream.entries, c, p.msg_id)
        h == Payload(IF p.msg_id = ">" THEN "delivered" ELSE "redelivered",
                     id, stream.entries[id])
    IN
    /\ p.pc = "xreadgroup"
    /\ IF fail \/ id = 0
       THEN /\ consumer' = [consumer EXCEPT ![c] = ReturnNone(p)]
            /\ UNCHANGED <<group, delivered>>
       ELSE /\ consumer' = [consumer EXCEPT ![c] = Return(p, h)]
            /\ IF p.msg_id = ">"
               THEN /\ group' = [group EXCEPT !.last_id = id,
                                              !.pel = @ \cup {<<id, c>>}]
                    /\ delivered' = Append(delivered, h)
               ELSE UNCHANGED <<group, delivered>>
    /\ queue_event' = IF fail THEN Raised ELSE NoEvent
    /\ UNCHANGED <<stream, sent, acked>>
    /\ UNCHANGED <<lockVars, productVars, clientVars>>

\* get_unacked_for(c, queue, group) up to xpending_range
get_unacked_for(c, fail) ==
    LET p == consumer[c]
        id == xpending_range(group.pel, c)
    IN
    /\ p.pc = "idle"
    /\ consumer' = [consumer EXCEPT ![c] =
           IF fail \/ ~stream.exists \/ ~group.exists \/ id = 0
           THEN ReturnNone(p)
           ELSE [Call(p) EXCEPT !.pc = "xrange", !.pend_id = id]]
    /\ queue_event' = IF fail THEN Raised
                      ELSE IF ~stream.exists THEN NotFound("no_stream", c)
                      ELSE IF ~group.exists THEN NotFound("no_group", c)
                      ELSE IF id = 0 THEN NoEvent
                      ELSE queue_event
    /\ UNCHANGED <<stream, sent, group, acked, delivered>>
    /\ UNCHANGED <<lockVars, productVars, clientVars>>

\* get_unacked_for: xrange(queue, min=msg_id, count=1) and the Payload of
\* what it returned, under the pending id
get_unacked_for_xrange(c, fail) ==
    LET p == consumer[c]
        i == xrange(stream.entries, p.pend_id)
    IN
    /\ p.pc = "xrange"
    /\ consumer' = [consumer EXCEPT ![c] =
           IF fail \/ i = 0 THEN ReturnNone(p)
           ELSE Return(p, Payload(IF p.handle.kind = "lost" THEN "recovered"
                                  ELSE "unacked",
                                  p.pend_id, stream.entries[i]))]
    /\ queue_event' = IF fail \/ i = 0 THEN Raised ELSE NoEvent
    /\ UNCHANGED <<stream, sent, group, acked, delivered>>
    /\ UNCHANGED <<lockVars, productVars, clientVars>>

\* Payload.ack() on the handle process c holds; fail: xack raises and ack
\* returns False
ack(c, fail) ==
    LET p == consumer[c] IN
    /\ p.pc = "idle"
    /\ p.handle.kind \notin {"none", "lost"}
    /\ IF fail
       THEN UNCHANGED <<group, acked>>
       ELSE /\ group' = [group EXCEPT !.pel = xack(@, p.handle.id)]
            /\ acked' = acked \cup {p.handle.id}
    /\ queue_event' = IF fail THEN Raised ELSE NoEvent
    /\ UNCHANGED <<stream, sent, consumer, delivered>>
    /\ UNCHANGED <<lockVars, productVars, clientVars>>

\* process c dies and starts again: its call in flight and its handle are
\* lost
Restart(c) ==
    LET p == consumer[c] IN
    /\ p.pc # "idle" \/ p.handle.kind \notin {"none", "lost"}
    /\ consumer' = [consumer EXCEPT ![c] =
           [IdleConsumer EXCEPT !.handle = LostHandle]]
    /\ UNCHANGED <<stream, sent, group, acked, delivered, queue_event>>
    /\ UNCHANGED <<lockVars, productVars, clientVars>>

NextQueue ==
    \/ \E m \in Messages, fails \in {0, 1, ProductAttempts} :
           queue_product(m, fails)
    \/ \E c \in Consumers, msg_id \in {">", "0"}, fail \in BOOLEAN :
           queue_consumer(c, msg_id, fail)
    \/ \E c \in Consumers, fail \in BOOLEAN : queue_consumer_create(c, fail)
    \/ \E c \in Consumers, fail \in BOOLEAN : queue_consumer_read(c, fail)
    \/ \E c \in Consumers, fail \in BOOLEAN : get_unacked_for(c, fail)
    \/ \E c \in Consumers, fail \in BOOLEAN : get_unacked_for_xrange(c, fail)
    \/ \E c \in Consumers, fail \in BOOLEAN : ack(c, fail)
    \/ \E c \in Consumers : Restart(c)

SpecQueue == Init /\ [][NextQueue]_vars

(***************************************************************************)
(* queue_product, attempt by attempt                                       *)
(***************************************************************************)
\* a producer process calls queue_product(queue, m)
queue_product_call(q, m) ==
    /\ producer[q].pc # "attempt"
    /\ Len(stream.entries)
           + Cardinality({r \in Producers : producer[r].pc = "attempt"})
         < MaxMsgs
    /\ producer' = [producer EXCEPT ![q] =
           [IdleProducer EXCEPT !.pc = "attempt", !.message = m]]
    /\ UNCHANGED queueVars
    /\ UNCHANGED <<lockVars, clientVars>>

\* a loop without `return True`: the next iteration follows a success too
AttemptAgain(p, ok) ==
    IF p.attempts + 1 < ProductAttempts
    THEN [p EXCEPT !.attempts = @ + 1,
                   !.appended = IF ok THEN @ + 1 ELSE @]
    ELSE [p EXCEPT !.pc = "done", !.result = "false", !.attempts = @ + 1,
                   !.appended = IF ok THEN @ + 1 ELSE @]

\* the producer after one iteration of `for _ in range(3)`; ok: nothing
\* raised in the try block.  `return True` after a success, the next
\* iteration after a failure, `return False` when the loop is over.
AfterAttempt(p, ok) ==
    IF ok
    THEN [p EXCEPT !.pc = "done", !.result = "true", !.attempts = @ + 1,
                   !.appended = @ + 1]
    ELSE IF p.attempts + 1 < ProductAttempts
         THEN [p EXCEPT !.attempts = @ + 1]
         ELSE [p EXCEPT !.pc = "done", !.result = "false",
                        !.attempts = @ + 1]

\* one iteration: json.dumps, pipeline.xadd, pipeline.execute; fail: the
\* pipeline raises and the entry is not added
queue_product_attempt(q, fail) ==
    LET p  == producer[q]
        ok == Serializable(p.message) /\ ~fail
    IN
    /\ p.pc = "attempt"
    /\ IF ok
       THEN /\ stream' = xadd(stream, json_dumps(p.message))
            /\ sent' = Append(sent, p.message)
       ELSE UNCHANGED <<stream, sent>>
    /\ producer' = [producer EXCEPT ![q] = AfterAttempt(p, ok)]
    /\ UNCHANGED <<group, consumer, acked, delivered, queue_event>>
    /\ UNCHANGED <<lockVars, clientVars>>

NextProduct ==
    \/ \E q \in Producers, m \in ProductMessages : queue_product_call(q, m)
    \/ \E q \in Producers, fail \in BOOLEAN : queue_product_attempt(q, fail)

SpecProduct == Init /\ [][NextProduct]_vars

(***************************************************************************)
(* Properties of the stream queue                                          *)
(***************************************************************************)
\* a message that json.dumps and json.loads give back as it was: built of
\* int, str, None, lists and dicts with str keys
RECURSIVE JsonNative(_)
JsonNative(v) ==
    CASE v.t \in {"int", "str", "None"} -> TRUE
      [] v.t = "list" -> \A i \in 1..Len(v.items) : JsonNative(v.items[i])
      [] v.t = "dict" ->
             \A i \in 1..Len(v.items) :
                 IF i % 2 = 1 THEN v.items[i].t = "str"
                 ELSE JsonNative(v.items[i])
      [] OTHER -> FALSE

\* C8 as stated: the handle get_unacked_for returned to c carries the
\* message queue_product was given for that entry, unchanged, and the entry
\* is the oldest one pending for c.
C8_PayloadEqualsMessage ==
    \A c \in Consumers :
        LET h == consumer[c].handle IN
        h.kind \in {"unacked", "recovered"}
        => /\ h.message = sent[h.id]
           /\ <<h.id, c>> \in group.pel
              => h.id = Oldest(PendingOf(group.pel, c))

\* C8 amended: the handle get_unacked_for returned to c carries
\* json.loads(json.dumps(M)) of the message M queue_product was given for
\* that entry, which is M when M is built of int, str, None, lists and
\* dicts with str keys, and the entry is the oldest one pending for c.
C8_PayloadIsJsonRoundTrip ==
    \A c \in Consumers :
        LET h == consumer[c].handle IN
        h.kind \in {"unacked", "recovered"}
        => /\ h.message = json_loads(json_dumps(sent[h.id]))
           /\ JsonNative(sent[h.id]) => h.message = sent[h.id]
           /\ <<h.id, c>> \in group.pel
              => h.id = Oldest(PendingOf(group.pel, c))

\* C8 witness: c1 was delivered the second entry, restarted, and
\* get_unacked_for gave it that entry, still pending, with the message as
\* it was produced.
C8_Witness ==
    LET h == consumer["c1"].handle IN
    /\ h.kind = "recovered"
    /\ h.id = 2
    /\ <<2, "c1">> \in group.pel
    /\ h.message = sent[2]
    /\ sent[1] # sent[2]

\* C9: a group is created at the origin of the stream, with nothing
\* pending; each queue_consumer call delivers at most one new entry, and
\* the k-th delivery of the group is the entry with id k, carrying that
\* entry's message.
C9_DeliversFromOrigin ==
    [][/\ ~group.exists /\ group'.exists
          => group'.last_id = 0 /\ group'.pel = {}
       /\ delivered' # delivered
          => /\ Len(delivered') = Len(delivered) + 1
             /\ \A i \in 1..Len(delivered) : delivered'[i] = delivered[i]
             /\ delivered'[Len(delivered')].id = Len(delivered')
             /\ delivered'[Len(delivered')].message
                    = json_loads(stream.entries[Len(delivered')])]_vars

\* C9 witness: two messages were in the stream when the group was created
\* and both have been delivered, the older one first.
C9_Witness ==
    /\ group.backlog = 2
    /\ Len(delivered) = 2
    /\ delivered[1].id = 1
    /\ delivered[2].id = 2

\* C10: a delivered entry is pending for the consumer it was delivered to;
\* a pending entry stays pending for the same consumer in every step that
\* is not a successful ack() on a handle of it; an acknowledged entry is
\* not pending after any step, and get_unacked_for does not return it.
C10_PendingUntilAcked ==
    [][/\ \A c \in Consumers :
             consumer'[c].handle # consumer[c].handle
                 /\ consumer'[c].handle.kind = "delivered"
             => <<consumer'[c].handle.id, c>> \in group'.pel
       /\ \A e \in group.pel :
             \/ e \in group'.pel
             \/ /\ e[1] \in acked'
                /\ \E c \in Consumers : /\ consumer[c].pc = "idle"
                                        /\ consumer[c].handle.id = e[1]
                                        /\ consumer[c].handle.kind # "lost"
                                        /\ consumer'[c] = consumer[c]
       /\ \A id \in acked' : \A c \in Consumers : <<id, c>> \notin group'.pel
       /\ \A c \in Consumers :
             consumer[c].pc = "xrange"
                 /\ consumer'[c].handle.kind \in {"unacked", "recovered"}
             => consumer'[c].handle.id \notin acked']_vars

\* C10 witness: the first entry was acknowledged, the second is pending for
\* c1, and get_unacked_for has given c1 the second.
C10_Witness ==
    /\ acked = {1}
    /\ <<2, "c1">> \in group.pel
    /\ consumer["c1"].handle.kind = "unacked"
    /\ consumer["c1"].handle.id = 2

(***************************************************************************)
(* The error handling of the operations of RedisDB and Payload.  A call    *)
(* is one step: its store call returns or raises, and the call returns.    *)
(* Every operation catches Exception around its store calls.               *)
(***************************************************************************)
\* the operations that return True after their store call
ReturnTrue ==
    {"set_obj", "set", "sadd", "srem", "zadd", "transaction",
     "queue_product", "ack"}

\* the operations whose except clause calls self.__open__()
Reopening ==
    {"exist", "get", "set_obj", "set", "sadd", "srem", "smembers", "zadd",
     "zcount", "zpopmin", "zrangebyscore", "transaction", "get_unacked_for"}

\* the operations whose except clause looks for "key" in the error text
\* (no such key, the answer to a missing stream) and then only returns
KeyTolerant == {"queue_consumer", "get_unacked_for"}

\* what the call returns when no store call raises: True, or what the
\* store returned
Returned(op) == IF op \in ReturnTrue THEN "True" ELSE "value"

\* what the call returns after its store call raised (for queue_product:
\* after the store call of each of its attempts raised)
FailureValue(op) ==
    IF op \in ReturnTrue THEN "False"
    ELSE IF op = "zcount" THEN "0"
    ELSE "None"

\* the __open__ calls of the except clause; key: the error text contains
\* "key"
Reopens(op, key) ==
    IF op \in Reopening /\ ~(key /\ op \in KeyTolerant) THEN 1 ELSE 0

\* self.__open__(): self.REDIS is a new client object
__open__(r) == r + 1

\* a call of operation op; fail: its store call raises; key: with an error
\* text that contains "key"
Invoke(op, fail, key) ==
    LET opens == IF fail THEN Reopens(op, key) ELSE 0 IN
    /\ key => fail /\ op \in KeyTolerant
    /\ REDIS + opens <= MaxClients
    /\ last_call' = [op     |-> op,
                     failed |-> fail,
                     result |-> IF fail THEN FailureValue(op)
                                ELSE Returned(op),
                     opens  |-> opens]
    /\ REDIS' = IF opens = 1 THEN __open__(REDIS) ELSE REDIS
    /\ UNCHANGED <<lockVars, queueVars, productVars>>

NextClient ==
    \E op \in Operations, fail \in BOOLEAN, key \in BOOLEAN :
        Invoke(op, fail, key)

SpecClient == Init /\ [][NextClient]_vars

\* C15: a call whose store call raised has returned its neutral failure
\* value and has called __open__ exactly once.
C15_FailureReconnectsOnce ==
    last_call.failed
        => /\ last_call.result \in {"False", "None", "0"}
           /\ last_call.opens = 1

\* C11: every iteration of queue_product is one more attempt, of at most
\* ProductAttempts; the iteration that adds the entry adds the serialized
\* message once, at the end of the stream, and returns true, and no
\* iteration before it added anything; an iteration that fails leaves the
\* stream as it is and is followed by the next one, or by the return of
\* false when it was the last.
C11_ThreeAttempts ==
    [][\A q \in Producers :
          producer[q].pc = "attempt" /\ producer'[q] # producer[q]
          => LET p  == producer[q]
                 p2 == producer'[q]
             IN
             /\ p.appended = 0
             /\ p2.attempts = p.attempts + 1
             /\ p2.attempts <= ProductAttempts
             /\ (p2.pc = "done" /\ p2.result = "true") <=> stream' # stream
             /\ IF stream' # stream
                THEN /\ stream'.entries
                          = Append(stream.entries, json_dumps(p.message))
                     /\ p2.appended = 1
                ELSE /\ p2.appended = 0
                     /\ IF p2.attempts = ProductAttempts
                        THEN p2.pc = "done" /\ p2.result = "false"
                        ELSE p2.pc = "attempt"]_vars

\* C11 witness: one call returned false after three failed attempts and
\* added nothing, another returned true at its second attempt, and the
\* stream holds the one entry of the latter.
C11_Witness ==
    /\ producer["p1"].pc = "done"
    /\ producer["p1"].result = "false"
    /\ producer["p1"].attempts = ProductAttempts
    /\ Serializable(producer["p1"].message)
    /\ producer["p2"].pc = "done"
    /\ producer["p2"].result = "true"
    /\ producer["p2"].attempts = 2
    /\ stream.entries = <<json_dumps(producer["p2"].message)>>

\* C20: the steps of get_unacked_for change neither the stream nor the
\* group (its existence, its last delivered id, its pending list); the id
\* it takes from XPENDING, and the message it returns, are those of the
\* oldest entry pending for the named consumer, as long as that entry is
\* not acked; the entry is pending for no other consumer.
C20_UnackedIsReadOnly ==
    [][\A c \in Consumers :
          /\ consumer'[c] # consumer[c]
          /\ consumer[c].pc = "xrange" \/ consumer'[c].pc = "xrange"
          => LET mine == PendingOf(group.pel, c) IN
             /\ stream' = stream
             /\ group' = group
             /\ consumer'[c].pc = "xrange"
                => mine # {} /\ consumer'[c].pend_id = Oldest(mine)
             /\ consumer'[c].handle.kind \in {"unacked", "recovered"}
                => /\ mine # {}
                   /\ consumer'[c].handle.id = Oldest(mine)
                   /\ consumer'[c].handle.message
                        = json_loads(stream.entries[Oldest(mine)])
                   /\ \A d \in Consumers \ {c} :
                          <<consumer'[c].handle.id, d>> \notin group.pel]_vars

\* C20 witness: get_unacked_for has returned to c1 the entry 2, pending for
\* c1, while the older entry 1 is pending for c2.
C20_Witness ==
    /\ consumer["c1"].pc = "idle"
    /\ consumer["c1"].handle.kind \in {"unacked", "recovered"}
    /\ consumer["c1"].handle.id = 2
    /\ <<2, "c1">> \in group.pel
    /\ <<1, "c2">> \in group.pel

\* C21: while the stream does not exist, the calls of the consumers return
\* nothing and create neither the stream nor a group; a call that did not
\* find the stream or the group has changed nothing and returned nothing;
\* a group is created on an existing stream only, from its origin; and a
\* queue_consumer call for new entries whose XREADGROUP does not raise
\* returns the first entry not yet delivered, whenever there is one.
C21_NotFoundIsEmpty ==
    [][/\ ~stream.exists /\ stream' = stream
          => /\ ~group'.exists
             /\ UNCHANGED <<acked, delivered>>
             /\ \A c \in Consumers :
                    /\ consumer'[c].pc = "idle"
                    /\ consumer'[c].handle.kind \in {"none", "lost"}
             /\ queue_event' # queue_event
                => queue_event'[1] \in {"no_stream", "raised"}
       /\ \A c \in Consumers :
             /\ queue_event' # queue_event
             /\ queue_event' \in {NotFound("no_stream", c),
                                   NotFound("no_group", c)}
             => /\ UNCHANGED <<stream, group, acked, delivered>>
                /\ IF queue_event'[1] = "no_stream" THEN ~stream.exists
                   ELSE stream.exists /\ ~group.exists
                /\ consumer'[c].pc = "idle"
                /\ consumer'[c].handle.kind \in {"none", "lost"}
       /\ ~group.exists /\ group'.exists
          => /\ stream.exists
             /\ group' = [exists |-> TRUE, last_id |-> 0, pel |-> {},
                          backlog |-> Len(stream.entries)]
       /\ \A c \in Consumers :
             /\ consumer[c].pc = "xreadgroup"
             /\ consumer[c].msg_id = ">"
             /\ group.last_id < Len(stream.entries)
             /\ consumer'[c].pc = "idle"
             /\ consumer'[c].handle.kind # "lost"
             /\ queue_event' = NoEvent
             => /\ consumer'[c].handle.kind = "delivered"
                /\ consumer'[c].handle.id = group.last_id + 1
                /\ consumer'[c].handle.message
                     = json_loads(stream.entries[group.last_id + 1])
                /\ group'.last_id = group.last_id + 1]_vars

\* C21 witness: the last call that returned is one of c1 that did not find
\* the stream; since then a message has been produced, and a
\* queue_consumer call of c1 on the group, created from the origin, is
\* about to read it.
C21_Witness ==
    /\ queue_event = NotFound("no_stream", "c1")
    /\ Len(stream.entries) = 1
    /\ group.exists
    /\ group.last_id = 0
    /\ consumer["c1"].pc = "xreadgroup"
    /\ consumer["c1"].msg_id = ">"

\* C22 as stated: a release_lock that ran the compare-and-delete leaves the
\* flag _lock_acquired of its instance false, whether the record was
\* deleted, held another token, or the call raised; when the call raised,
\* the store is left as it was; and while the store holds the token of an
\* instance whose flag is false, the only step that removes the record is
\* the expiry of its TTL.
C22_FlagClearedRecordLeftToExpire ==
    [][\A w \in Workers :
          /\ lock_event' \in {"released", "mismatch", "raised"}
             /\ worker'[w] # worker[w]
             => /\ worker[w]._lock_acquired
                /\ ~worker'[w]._lock_acquired
                /\ lock_event' = "raised" => lock_store' = lock_store
          /\ OwnsKey(w) /\ ~worker[w]._lock_acquired
             /\ ~(lock_store'.present
                   /\ lock_store'.value = worker[w].lock_value)
             => lock_event' = "expire"]_vars

====
